---- MODULE Spec2Model ----
(***************************************************************************)
(* Quota / entitlement engine of the image generation bot (src/bot.py).    *)
(*                                                                         *)
(* The store holds two tables: users (telegram_id -> generation_tokens)    *)
(* and daily_usage ((telegram_id, date) -> used).  Every handler is an     *)
(* asyncio task; every await is a point where other tasks run, and every   *)
(* SQL statement is executed atomically by the store.  A task is therefore *)
(* modelled as a record with a program counter that stands before the next *)
(* statement it will send to the store or the next external call.          *)
(***************************************************************************)
EXTENDS Integers, FiniteSets, Sequences, TLC

\* ------------------------------------------------------------------ bounds
MaxDay == 1
MaxTokens == 2
MaxAmount == 2
MaxCalls == 3

\* --------------------------------------------------------------- constants
FREE_DAILY_LIMIT == 1

Users == {1, 2}
ADMIN_IDS == {1}
Tasks == {1, 2}
Days == 0..MaxDay
Amounts == 0..MaxAmount
GenTypes == {"free", "paid", "None", "other"}
Usernames == {"ann", "bob"}
SUPPORT_MODE == "support"

\* user_states.get(user_id, {}).get("mode"); "none" when there is none
Modes == {"none", SUPPORT_MODE, "txt2img", "img2img"}

\* message.from_user.username of an account that keeps its name
Username(u) == IF u = 1 THEN "ann" ELSE "bob"

VARIABLES users, daily_usage, today, tasks, seen, store_up, user_states

vars == <<users, daily_usage, today, tasks, seen, store_up, user_states>>
ledger == <<users, daily_usage>>

\* ------------------------------------------------------------------ store
SelectUsed_AnyDay(u) ==
    IF \E d \in Days : <<u, d>> \in DOMAIN daily_usage
    THEN <<daily_usage[<<u, CHOOSE d \in Days : <<u, d>> \in DOMAIN daily_usage>>]>>
    ELSE <<>>

\* A fetchrow result: <<>> when no row matches, <<value>> otherwise.
SelectUsed(u) ==
    IF <<u, today>> \in DOMAIN daily_usage THEN <<daily_usage[<<u, today>>]>> ELSE <<>>

SelectTokens(u) ==
    IF u \in DOMAIN users THEN <<users[u].generation_tokens>> ELSE <<>>

\* a row of users; generation_tokens INTEGER DEFAULT 0
UserRow(name, d, b) == [username |-> name, created_at |-> d, generation_tokens |-> b]

InsertUser_Upsert(us, u, name, d) ==
    [x \in DOMAIN us \cup {u} |->
        IF x = u THEN UserRow(name, d, 0) ELSE us[x]]

\* INSERT INTO users (telegram_id, username, created_at)
\* VALUES ($1, $2, CURRENT_DATE) ON CONFLICT (telegram_id) DO NOTHING
InsertUser(us, u, name, d) ==
    IF u \in DOMAIN us THEN us
    ELSE [x \in DOMAIN us \cup {u} |->
            IF x = u THEN UserRow(name, d, 0) ELSE us[x]]

\* INSERT INTO daily_usage ... ON CONFLICT DO UPDATE SET used = used + 1
UpsertDailyUsage_Overwrite(du, u, d) ==
    [k \in DOMAIN du \cup {<<u, d>>} |-> IF k = <<u, d>> THEN 1 ELSE du[k]]

UpsertDailyUsage(du, u, d) ==
    [k \in DOMAIN du \cup {<<u, d>>} |->
        IF k = <<u, d>>
        THEN (IF k \in DOMAIN du THEN du[k] + 1 ELSE 1)
        ELSE du[k]]

\* UPDATE users SET generation_tokens = generation_tokens + delta WHERE telegram_id = u
\* (no row matches: nothing changes)
UpdateTokens(us, u, delta) ==
    [x \in DOMAIN us |->
        IF x = u THEN [us[x] EXCEPT !.generation_tokens = @ + delta] ELSE us[x]]

\* ------------------------------------------------------------------ tasks
Idle ==
    [op |-> "none", pc |-> "idle", sender |-> 0, target |-> 0, amount |-> 0,
     gen_type |-> "None", charged |-> 0, result |-> "none", ret |-> 0,
     conn |-> 0, username |-> "", mode |-> "none", live |-> FALSE]

Init ==
    /\ users = << >>
    /\ daily_usage = << >>
    /\ today = 0
    /\ tasks = [t \in Tasks |-> Idle]
    /\ seen = << >>
    /\ store_up = TRUE
    /\ user_states = [u \in Users |-> "txt2img"]

Set(t, r) == tasks' = [tasks EXCEPT ![t] = r]

\* the decision the resolver's rule gives on a ledger: free while today's
\* used count is below the limit, else paid while the balance is positive
RuleOn(us, du, d, u) ==
    IF (IF <<u, d>> \in DOMAIN du THEN du[<<u, d>>] ELSE 0) < FREE_DAILY_LIMIT
    THEN "free"
    ELSE IF u \in DOMAIN us /\ us[u].generation_tokens > 0 THEN "paid"
    ELSE "None"

InCall(r) == r.pc \in {"cg_used", "cg_tokens"}

\* history of the can_generate calls of the watched handlers (DOMAIN seen):
\* for a call in progress, the decisions the rule gave on the ledger states
\* that have existed since the call started, the new state included
Observe ==
    seen' = [t \in DOMAIN seen |->
               IF InCall(tasks'[t])
               THEN (IF InCall(tasks[t]) THEN seen[t] ELSE {})
                       \cup {RuleOn(users', daily_usage', today', tasks'[t].target)}
               ELSE {}]

\* async with db.DB_POOL.acquire() as conn: the task takes a connection of
\* the pool on entering the block
Acquire(r) == [r EXCEPT !.conn = @ + 1]

Release_Leaks(r) == r

\* ... and gives it back on leaving the block, by return or by exception
Release(r) == [r EXCEPT !.conn = @ - 1]

\* a handler that has returned: what it did and what it reported
Done(r, res) ==
    [r EXCEPT !.pc = "done", !.result = res, !.amount = 0, !.live = FALSE]

\* user_states.pop(user_id, None)
Pop(us, u) == [us EXCEPT ![u] = "none"]

\* the entry of u in user_states is removed or replaced by a new dict: the
\* dict a running generate_image of u holds as `state` is no longer the entry
Unalias(ts, u) ==
    [x \in DOMAIN ts |->
        IF ts[x].target = u THEN [ts[x] EXCEPT !.live = FALSE] ELSE ts[x]]

\* CURRENT_DATE advances
Tick ==
    /\ today < MaxDay
    /\ today' = today + 1
    /\ UNCHANGED <<users, daily_usage, tasks>>
    /\ UNCHANGED <<store_up, user_states>>
    /\ Observe

\* register_user(telegram_id, username)
register_user(u, name) ==
    /\ store_up
    /\ users' = InsertUser(users, u, name, today)
    /\ UNCHANGED <<daily_usage, today, tasks>>
    /\ UNCHANGED <<store_up, user_states>>
    /\ Observe

\* /start: register_user(message.from_user.id, message.from_user.username),
\* then the main menu
start(t, u, name) ==
    /\ store_up
    /\ tasks[t].pc = "idle"
    /\ users' = InsertUser(users, u, name, today)
    /\ Set(t, Done([Idle EXCEPT !.op = "start", !.sender = u, !.target = u,
                                !.username = name], "menu"))
    /\ UNCHANGED <<daily_usage, today>>
    /\ UNCHANGED <<store_up, user_states>>
    /\ Observe

\* ----------------------------------------------------------- can_generate
FreeAvailable_OffByOne(row) == row = <<>> \/ row[1] <= FREE_DAILY_LIMIT

\* if row is None or row["used"] < FREE_DAILY_LIMIT
FreeAvailable(row) == row = <<>> \/ row[1] < FREE_DAILY_LIMIT

PaidAvailable_AtZero(row) == row # <<>> /\ row[1] >= 0

\* if row and row["generation_tokens"] > 0
PaidAvailable(row) == row # <<>> /\ row[1] > 0

AfterResolve_IgnoresDenied(r, g) == [r EXCEPT !.gen_type = g, !.pc = "run"]

\* what generate_image does with the value can_generate returned
AfterResolve(r, g) ==
    IF g = "None"
    THEN Done([r EXCEPT !.gen_type = g], "no_tokens")
    ELSE [r EXCEPT !.gen_type = g, !.pc = "run", !.live = FALSE,
                   !.mode = IF r.live THEN user_states[r.target] ELSE r.mode]

\* a text message in a generation mode: generate_image up to its first
\* query; `state` is the user's entry of user_states, and in support mode
\* the text goes to the support chat instead
generate_image(t, u) ==
    /\ tasks[t].pc = "idle"
    /\ Set(t, IF user_states[u] = SUPPORT_MODE
              THEN Done([Idle EXCEPT !.op = "generate_image", !.sender = u,
                                     !.target = u], "support_forwarded")
              ELSE Acquire([Idle EXCEPT !.op = "generate_image", !.pc = "cg_used",
                                        !.sender = u, !.target = u,
                                        !.mode = user_states[u], !.live = TRUE]))
    /\ UNCHANGED <<users, daily_usage, today>>
    /\ UNCHANGED <<store_up, user_states>>
    /\ Observe

can_generate_used_Mutating(t) ==
    /\ store_up
    /\ tasks[t].pc = "cg_used"
    /\ LET r == tasks[t]
           row == SelectUsed(r.target)
       IN  IF FreeAvailable(row)
           THEN /\ Set(t, AfterResolve(Release(r), "free"))
                /\ daily_usage' = UpsertDailyUsage(daily_usage, r.target, today)
           ELSE /\ Set(t, [r EXCEPT !.pc = "cg_tokens"])
                /\ UNCHANGED daily_usage
    /\ UNCHANGED <<users, today>>
    /\ UNCHANGED <<store_up, user_states>>
    /\ Observe

\* first query of can_generate: SELECT used FROM daily_usage
can_generate_used(t) ==
    /\ store_up
    /\ tasks[t].pc = "cg_used"
    /\ LET r == tasks[t]
           row == SelectUsed(r.target)
       IN  IF FreeAvailable(row)
           THEN Set(t, AfterResolve(Release(r), "free"))
           ELSE Set(t, [r EXCEPT !.pc = "cg_tokens"])
    /\ UNCHANGED <<users, daily_usage, today>>
    /\ UNCHANGED <<store_up, user_states>>
    /\ Observe

\* second query of can_generate: SELECT generation_tokens FROM users
can_generate_tokens(t) ==
    /\ store_up
    /\ tasks[t].pc = "cg_tokens"
    /\ LET r == tasks[t]
           row == SelectTokens(r.target)
       IN  Set(t, AfterResolve(Release(r),
                               IF PaidAvailable(row) THEN "paid" ELSE "None"))
    /\ UNCHANGED <<users, daily_usage, today>>
    /\ UNCHANGED <<store_up, user_states>>
    /\ Observe

\* ------------------------------------------------------ commit_generation
commit_generation_BothTables(telegram_id, gen_type) ==
    /\ daily_usage' = IF gen_type \in {"free", "paid"}
                      THEN UpsertDailyUsage(daily_usage, telegram_id, today)
                      ELSE daily_usage
    /\ users' = IF gen_type = "paid"
                THEN UpdateTokens(users, telegram_id, -1)
                ELSE users

commit_generation(telegram_id, gen_type) ==
    /\ daily_usage' = IF gen_type = "free"
                      THEN UpsertDailyUsage(daily_usage, telegram_id, today)
                      ELSE daily_usage
    /\ users' = IF gen_type = "paid"
                THEN UpdateTokens(users, telegram_id, -1)
                ELSE users

\* -------------------------------------------------------- generate_image
\* what the try block does to user_states and to the handlers of the same
\* user once replicate.run has returned: in the img2img branch the user's
\* entry is popped
AfterRun(t, new, popped) ==
    /\ user_states' = IF popped THEN Pop(user_states, tasks[t].target)
                                ELSE user_states
    /\ tasks' = [(IF popped THEN Unalias(tasks, tasks[t].target) ELSE tasks)
                    EXCEPT ![t] = new]

GenRun_CommitBeforeSend(t) ==
    /\ tasks[t].pc = "run"
    /\ \E out \in {"gen_failed", "send_failed", "sent"} :
         IF out = "gen_failed"
         THEN /\ AfterRun(t, Done(tasks[t], out), FALSE)
              /\ UNCHANGED <<users, daily_usage>>
         ELSE /\ commit_generation(tasks[t].target, tasks[t].gen_type)
              /\ AfterRun(t, Done([tasks[t] EXCEPT !.charged = @ + 1],
                                   IF out = "sent" THEN "ok" ELSE out),
                           tasks[t].mode = "img2img")
    /\ UNCHANGED today
    /\ UNCHANGED store_up
    /\ Observe

\* the try block up to the commit: replicate.run in the executor, then
\* bot.send_photo of its output; either may raise into the except branch.
\* After them commit_generation is entered and takes its connection.
GenRun(t) ==
    /\ tasks[t].pc = "run"
    /\ \E out \in {"gen_failed", "send_failed", "sent"} :
         AfterRun(t, IF out = "sent" THEN Acquire([tasks[t] EXCEPT !.pc = "commit"])
                                     ELSE Done(tasks[t], out),
                  out # "gen_failed" /\ tasks[t].mode = "img2img")
    /\ UNCHANGED <<users, daily_usage, today>>
    /\ UNCHANGED store_up
    /\ Observe

GenCommit_ChargesPaid(t) ==
    /\ store_up
    /\ tasks[t].op = "generate_image"
    /\ tasks[t].pc = "commit"
    /\ commit_generation(tasks[t].target, "paid")
    /\ \E ok \in BOOLEAN :
         Set(t, Done(Release([tasks[t] EXCEPT !.charged = @ + 1]),
                     IF ok THEN "ok" ELSE "delete_failed"))
    /\ UNCHANGED today
    /\ UNCHANGED <<store_up, user_states>>
    /\ Observe

\* await commit_generation(user_id, gen_type), then info_msg.delete(), which
\* may still raise into the except branch
GenCommit(t) ==
    /\ store_up
    /\ tasks[t].op = "generate_image"
    /\ tasks[t].pc = "commit"
    /\ commit_generation(tasks[t].target, tasks[t].gen_type)
    /\ \E ok \in BOOLEAN :
         Set(t, Done(Release([tasks[t] EXCEPT !.charged = @ + 1]),
                     IF ok THEN "ok" ELSE "delete_failed"))
    /\ UNCHANGED today
    /\ UNCHANGED <<store_up, user_states>>
    /\ Observe

\* can_generate while the store cannot be reached: acquire or fetchrow
\* raises, the async with block is left, and as the call at the top of
\* generate_image is outside its try block the handler ends with the exception
can_generate_raises_AsDenied(t) ==
    /\ tasks[t].op = "generate_image"
    /\ InCall(tasks[t])
    /\ ~store_up
    /\ Set(t, AfterResolve(Release(tasks[t]), "None"))
    /\ UNCHANGED <<users, daily_usage, today>>
    /\ UNCHANGED <<store_up, user_states>>
    /\ Observe

can_generate_raises(t) ==
    /\ tasks[t].op = "generate_image"
    /\ InCall(tasks[t])
    /\ ~store_up
    /\ Set(t, Done(Release(tasks[t]), "raised"))
    /\ UNCHANGED <<users, daily_usage, today>>
    /\ UNCHANGED <<store_up, user_states>>
    /\ Observe

\* commit_generation while the store cannot be reached: it raises inside the
\* try block, the except branch deletes info_msg and shows the error text
commit_generation_raises(t) ==
    /\ tasks[t].op = "generate_image"
    /\ tasks[t].pc = "commit"
    /\ ~store_up
    /\ Set(t, Done(Release(tasks[t]), "commit_error"))
    /\ UNCHANGED <<users, daily_usage, today>>
    /\ UNCHANGED <<store_up, user_states>>
    /\ Observe

\* the store becomes unreachable, and reachable again
StoreFails ==
    /\ store_up
    /\ store_up' = FALSE
    /\ UNCHANGED <<users, daily_usage, today, tasks, user_states>>
    /\ Observe

StoreRecovers ==
    /\ ~store_up
    /\ store_up' = TRUE
    /\ UNCHANGED <<users, daily_usage, today, tasks, user_states>>
    /\ Observe

\* ---------------------------------------------------------- session modes
\* a handler that puts a new dict with this mode into user_states[user_id]
NewState(u, m) ==
    /\ user_states' = [user_states EXCEPT ![u] = m]
    /\ tasks' = Unalias(tasks, u)
    /\ UNCHANGED <<users, daily_usage, today, store_up>>
    /\ Observe

\* a handler that removes user_states[user_id]
PopState(u) ==
    /\ user_states' = Pop(user_states, u)
    /\ tasks' = Unalias(tasks, u)
    /\ UNCHANGED <<users, daily_usage, today, store_up>>
    /\ Observe

\* a handler that does user_states.setdefault(user_id, {}) and then sets
\* "mode" in that dict
SetMode(u, m) ==
    /\ user_states' = [user_states EXCEPT ![u] = m]
    /\ UNCHANGED <<users, daily_usage, today, tasks, store_up>>
    /\ Observe

support_start(u) == NewState(u, SUPPORT_MODE)

support_exit(u) == PopState(u)

back_to_modes(u) == PopState(u)

back_to_start(u) == PopState(u)

\* /txt2img
txt2img(u) == NewState(u, "txt2img")

\* /img2img
img2img(u) == NewState(u, "img2img")

\* select_mode:<mode>: only the img2img button sets the mode
handle_mode_selection(u, mode) ==
    SetMode(u, IF mode = "img2img" THEN "img2img" ELSE user_states[u])

set_ratio(u) == SetMode(u, "txt2img")

set_ratio_img2img(u) == SetMode(u, "img2img")

text_router_NoModeGate(t, u) == generate_image(t, u)

\* a text message that is not a command
text_router(t, u) ==
    IF user_states[u] = SUPPORT_MODE
    THEN /\ tasks[t].pc = "idle"
         /\ Set(t, Done([Idle EXCEPT !.op = "text_router", !.sender = u,
                                     !.target = u], "support_forwarded"))
         /\ UNCHANGED <<users, daily_usage, today>>
         /\ UNCHANGED <<store_up, user_states>>
         /\ Observe
    ELSE IF user_states[u] \in {"txt2img", "img2img"}
    THEN generate_image(t, u)
    ELSE /\ tasks[t].pc = "idle"
         /\ Set(t, Done([Idle EXCEPT !.op = "text_router", !.sender = u,
                                     !.target = u], "choose_mode"))
         /\ UNCHANGED <<users, daily_usage, today>>
         /\ UNCHANGED <<store_up, user_states>>
         /\ Observe

\* the handler has returned; its task is gone
Finish(t) ==
    /\ tasks[t].pc = "done"
    /\ Set(t, Idle)
    /\ UNCHANGED <<users, daily_usage, today>>
    /\ UNCHANGED <<store_up, user_states>>
    /\ Observe

\* ------------------------------------------------------------ add_tokens
\* tokens still to be credited by add_tokens handlers in flight
PendingCredit(u) ==
    LET S == {t \in DOMAIN tasks : /\ tasks[t].op = "add_tokens"
                                   /\ tasks[t].pc \in {"at_select", "at_update"}
                                   /\ tasks[t].target = u}
        Sum[T \in SUBSET S] ==
            IF T = {} THEN 0
            ELSE LET x == CHOOSE y \in T : TRUE
                 IN  tasks[x].amount + Sum[T \ {x}]
    IN  Sum[S]

AdminGate_NoRightsCheck(r, first) ==
    IF r.amount <= 0 THEN Done(r, "bad_params")
    ELSE Acquire([r EXCEPT !.pc = first])

\* the checks both admin commands make before touching the store
AdminGate(r, first) ==
    IF r.sender \notin ADMIN_IDS THEN Done(r, "no_rights")
    ELSE IF r.amount <= 0 THEN Done(r, "bad_params")
    ELSE Acquire([r EXCEPT !.pc = first])

\* /add_tokens_for_users <telegram_id> <amount>
add_tokens(t, s, u, n) ==
    /\ tasks[t].pc = "idle"
    /\ (IF u \in DOMAIN users THEN users[u].generation_tokens ELSE 0)
          + PendingCredit(u) + n <= MaxTokens
    /\ Set(t, AdminGate([Idle EXCEPT !.op = "add_tokens", !.sender = s,
                                     !.target = u, !.amount = n], "at_select"))
    /\ UNCHANGED <<users, daily_usage, today>>
    /\ UNCHANGED <<store_up, user_states>>
    /\ Observe

AddSelect_NoExistenceCheck(t) ==
    /\ store_up
    /\ tasks[t].pc = "at_select"
    /\ Set(t, [tasks[t] EXCEPT !.pc = "at_update"])
    /\ UNCHANGED <<users, daily_usage, today>>
    /\ UNCHANGED <<store_up, user_states>>
    /\ Observe

\* SELECT generation_tokens FROM users; if not row: "user not found"
AddSelect(t) ==
    /\ store_up
    /\ tasks[t].pc = "at_select"
    /\ LET row == SelectTokens(tasks[t].target)
       IN  Set(t, IF row = <<>> THEN Done(Release(tasks[t]), "not_found")
                  ELSE [tasks[t] EXCEPT !.pc = "at_update"])
    /\ UNCHANGED <<users, daily_usage, today>>
    /\ UNCHANGED <<store_up, user_states>>
    /\ Observe

AddUpdate_Overwrite(t) ==
    /\ store_up
    /\ tasks[t].pc = "at_update"
    /\ users' = [users EXCEPT ![tasks[t].target].generation_tokens = tasks[t].amount]
    /\ \E ok \in BOOLEAN :
         Set(t, Done(Release(tasks[t]),
                     IF ok THEN "ok_notified" ELSE "ok_not_notified"))
    /\ UNCHANGED <<daily_usage, today>>
    /\ UNCHANGED <<store_up, user_states>>
    /\ Observe

\* UPDATE users SET generation_tokens = generation_tokens + $1, then the
\* top-up notification to the user: sent, or its failure reported to the admin
AddUpdate(t) ==
    /\ store_up
    /\ tasks[t].pc = "at_update"
    /\ users' = UpdateTokens(users, tasks[t].target, tasks[t].amount)
    /\ \E ok \in BOOLEAN :
         Set(t, Done(Release(tasks[t]),
                     IF ok THEN "ok_notified" ELSE "ok_not_notified"))
    /\ UNCHANGED <<daily_usage, today>>
    /\ UNCHANGED <<store_up, user_states>>
    /\ Observe

\* --------------------------------------------------------- remove_tokens
\* /remove_tokens <telegram_id> <amount>
remove_tokens_cmd(t, s, u, n) ==
    /\ tasks[t].pc = "idle"
    /\ Set(t, AdminGate([Idle EXCEPT !.op = "remove_tokens", !.sender = s,
                                     !.target = u, !.amount = n], "rt_select"))
    /\ UNCHANGED <<users, daily_usage, today>>
    /\ UNCHANGED <<store_up, user_states>>
    /\ Observe

Insufficient_OffByOne(current, amount) == current <= amount

\* if current < amount: return False
Insufficient(current, amount) == current < amount

\* remove_tokens: SELECT generation_tokens, then the two early returns
RemoveSelect(t) ==
    /\ store_up
    /\ tasks[t].pc = "rt_select"
    /\ LET row == SelectTokens(tasks[t].target)
       IN  Set(t, IF row = <<>> THEN Done(Release(tasks[t]), "insufficient")
                  ELSE IF Insufficient(row[1], tasks[t].amount)
                       THEN Done(Release(tasks[t]), "insufficient")
                       ELSE [tasks[t] EXCEPT !.pc = "rt_update"])
    /\ UNCHANGED <<users, daily_usage, today>>
    /\ UNCHANGED <<store_up, user_states>>
    /\ Observe

\* remove_tokens: UPDATE users SET generation_tokens = generation_tokens - $1
RemoveUpdate(t) ==
    /\ store_up
    /\ tasks[t].pc = "rt_update"
    /\ users' = UpdateTokens(users, tasks[t].target, 0 - tasks[t].amount)
    /\ Set(t, Done(Release(tasks[t]), "ok"))
    /\ UNCHANGED <<daily_usage, today>>
    /\ UNCHANGED <<store_up, user_states>>
    /\ Observe

\* ------------------------------------------- commit_generation, called
\* what a call of commit_generation reports to its caller: every branch of
\* the if / elif falls through to the end of the function
CommitOutcome(gen_type) ==
    IF gen_type = "free" THEN "returned"
    ELSE IF gen_type = "paid" THEN "returned"
    ELSE "returned"

\* a caller invokes commit_generation(telegram_id, gen_type)
CallCommit(t, u, g) ==
    /\ tasks[t].pc = "idle"
    /\ Set(t, Acquire([Idle EXCEPT !.op = "commit_generation", !.pc = "commit",
                                   !.target = u, !.gen_type = g]))
    /\ UNCHANGED <<users, daily_usage, today>>
    /\ UNCHANGED <<store_up, user_states>>
    /\ Observe

\* the call runs its statement, if any, and returns
CommitReturn(t) ==
    /\ store_up
    /\ tasks[t].op = "commit_generation"
    /\ tasks[t].pc = "commit"
    /\ commit_generation(tasks[t].target, tasks[t].gen_type)
    /\ Set(t, Done(Release([tasks[t] EXCEPT !.charged = @ + 1]),
                   CommitOutcome(tasks[t].gen_type)))
    /\ UNCHANGED today
    /\ UNCHANGED <<store_up, user_states>>
    /\ Observe

\* registered users with some balance, nothing used today, MaxCalls callers
InitCommit ==
    /\ \E b \in 0..MaxTokens : users = [u \in Users |-> UserRow(Username(u), 0, b)]
    /\ daily_usage = << >>
    /\ today = 0
    /\ tasks = [t \in 1..MaxCalls |-> Idle]
    /\ seen = << >>
    /\ store_up = TRUE
    /\ user_states = [u \in Users |-> "txt2img"]

NextCommit ==
    \/ \E t \in 1..MaxCalls, u \in Users, g \in GenTypes : CallCommit(t, u, g)
    \/ \E t \in 1..MaxCalls : CommitReturn(t)

\* concurrent direct calls of commit_generation on one calendar day
SpecCommit == InitCommit /\ [][NextCommit]_vars

\* --------------------------------------------------- get_free_left_today
Max(a, b) == IF a > b THEN a ELSE b

FreeLeft_NoClamp(row) ==
    LET used == IF row # <<>> THEN row[1] ELSE 0
    IN  FREE_DAILY_LIMIT - used

\* used = row["used"] if row else 0; return max(FREE_DAILY_LIMIT - used, 0)
FreeLeft(row) ==
    LET used == IF row # <<>> THEN row[1] ELSE 0
    IN  Max(FREE_DAILY_LIMIT - used, 0)

\* show_balance calls get_free_left_today(user_id)
CallFreeLeft(t, u) ==
    /\ tasks[t].pc = "idle"
    /\ Set(t, Acquire([Idle EXCEPT !.op = "get_free_left_today",
                                   !.pc = "fl_select", !.target = u]))
    /\ UNCHANGED <<users, daily_usage, today>>
    /\ UNCHANGED <<store_up, user_states>>
    /\ Observe

\* its SELECT used FROM daily_usage, and the value it returns
FreeLeftReturn(t) ==
    /\ store_up
    /\ tasks[t].pc = "fl_select"
    /\ Set(t, Done(Release([tasks[t] EXCEPT
                                !.ret = FreeLeft(SelectUsed(tasks[t].target))]),
                   "returned"))
    /\ UNCHANGED <<users, daily_usage, today>>
    /\ UNCHANGED <<store_up, user_states>>
    /\ Observe

NextFreeLeft ==
    \/ \E t \in 1..MaxCalls, u \in Users : CallCommit(t, u, "free")
    \/ \E t \in 1..MaxCalls : CommitReturn(t)
    \/ \E t \in 1..MaxCalls, u \in Users : CallFreeLeft(t, u)
    \/ \E t \in 1..MaxCalls : FreeLeftReturn(t)

\* get_free_left_today called while free commits of the day are recorded
SpecFreeLeft == InitCommit /\ [][NextFreeLeft]_vars

\* --------------------------------------------------- one request at a time
\* the balance each user holds at the start of the day
SerialBalance(u) == IF u = 1 THEN MaxTokens ELSE 0

InitSerial ==
    /\ users = [u \in Users |-> UserRow(Username(u), 0, SerialBalance(u))]
    /\ daily_usage = << >>
    /\ today = 0
    /\ tasks = [t \in Users |-> Idle]
    /\ seen = << >>
    /\ store_up = TRUE
    /\ user_states = [u \in Users |-> "txt2img"]

\* the handler slot u serves user u alone
NextSerial ==
    \/ \E u \in Users : generate_image(u, u)
    \/ \E u \in Users : can_generate_used(u)
    \/ \E u \in Users : can_generate_tokens(u)
    \/ \E u \in Users : GenRun(u)
    \/ \E u \in Users : GenCommit(u)
    \/ \E u \in Users : Finish(u)

\* each user's prompts handled strictly one after another on one calendar
\* day: at most one handler per user at a time, from resolve to commit
SpecSerial == InitSerial /\ [][NextSerial]_vars

\* ------------------------------------------------------------------ bot
\* every handler of the bot, within one calendar day
Next ==
    \/ \E u \in Users : register_user(u, Username(u))
    \/ \E t \in Tasks, u \in Users : generate_image(t, u)
    \/ \E t \in Tasks : can_generate_used(t)
    \/ \E t \in Tasks : can_generate_tokens(t)
    \/ \E t \in Tasks : GenRun(t)
    \/ \E t \in Tasks : GenCommit(t)
    \/ \E t \in Tasks, s \in Users, u \in Users, n \in Amounts : add_tokens(t, s, u, n)
    \/ \E t \in Tasks : AddSelect(t)
    \/ \E t \in Tasks : AddUpdate(t)
    \/ \E t \in Tasks, s \in Users, u \in Users, n \in Amounts : remove_tokens_cmd(t, s, u, n)
    \/ \E t \in Tasks : RemoveSelect(t)
    \/ \E t \in Tasks : RemoveUpdate(t)
    \/ \E t \in Tasks : Finish(t)

Spec == Init /\ [][Next]_vars

\* the same handlers with the store's date advancing under them
NextDays == Next \/ Tick

SpecDays == Init /\ [][NextDays]_vars

\* ------------------------------------------------- one user, over midnight
\* user 1 has sent /start; every can_generate call is watched
InitRollover ==
    /\ users = InsertUser(<< >>, 1, Username(1), 0)
    /\ daily_usage = << >>
    /\ today = 0
    /\ tasks = [t \in Tasks |-> Idle]
    /\ seen = [t \in Tasks |-> {}]
    /\ store_up = TRUE
    /\ user_states = [u \in Users |-> "txt2img"]

NextRollover ==
    \/ Tick
    \/ \E t \in Tasks : generate_image(t, 1)
    \/ \E t \in Tasks : can_generate_used(t)
    \/ \E t \in Tasks : can_generate_tokens(t)
    \/ \E t \in Tasks : GenRun(t)
    \/ \E t \in Tasks : GenCommit(t)
    \/ \E t \in Tasks, s \in ADMIN_IDS, n \in 1..MaxAmount : add_tokens(t, s, 1, n)
    \/ \E t \in Tasks : AddSelect(t)
    \/ \E t \in Tasks : AddUpdate(t)
    \/ \E t \in Tasks, s \in ADMIN_IDS, n \in 1..MaxAmount : remove_tokens_cmd(t, s, 1, n)
    \/ \E t \in Tasks : RemoveSelect(t)
    \/ \E t \in Tasks : RemoveUpdate(t)
    \/ \E t \in Tasks : Finish(t)

\* the prompts of one registered user and the admin's commands on that
\* user, with the store's date advancing under them
SpecRollover == InitRollover /\ [][NextRollover]_vars

\* ------------------------------------------------------------- outages
\* prompts of both users on one calendar day while the store comes and goes
NextOutage ==
    \/ StoreFails
    \/ StoreRecovers
    \/ \E t \in Tasks, u \in Users : generate_image(t, u)
    \/ \E t \in Tasks : can_generate_used(t)
    \/ \E t \in Tasks : can_generate_tokens(t)
    \/ \E t \in Tasks : can_generate_raises(t)
    \/ \E t \in Tasks : GenRun(t)
    \/ \E t \in Tasks : GenCommit(t)
    \/ \E t \in Tasks : commit_generation_raises(t)
    \/ \E t \in Tasks : Finish(t)

SpecOutage == InitSerial /\ [][NextOutage]_vars

\* ------------------------------------------------------------- sessions
\* both users are registered and no one has chosen a mode yet
InitSession ==
    /\ users = [u \in Users |-> UserRow(Username(u), 0, SerialBalance(u))]
    /\ daily_usage = << >>
    /\ today = 0
    /\ tasks = [t \in Tasks |-> Idle]
    /\ seen = << >>
    /\ store_up = TRUE
    /\ user_states = [u \in Users |-> "none"]

\* the menu buttons and mode commands of user 1, and that user's text messages
NextSession ==
    \/ support_start(1)
    \/ support_exit(1)
    \/ back_to_modes(1)
    \/ back_to_start(1)
    \/ txt2img(1)
    \/ img2img(1)
    \/ \E mode \in {"txt2img", "img2img"} : handle_mode_selection(1, mode)
    \/ set_ratio(1)
    \/ set_ratio_img2img(1)
    \/ \E t \in Tasks : text_router(t, 1)
    \/ \E t \in Tasks : can_generate_used(t)
    \/ \E t \in Tasks : can_generate_tokens(t)
    \/ \E t \in Tasks : GenRun(t)
    \/ \E t \in Tasks : GenCommit(t)
    \/ \E t \in Tasks : Finish(t)

SpecSession == InitSession /\ [][NextSession]_vars

\* ------------------------------------------------------------ registration
\* /start from accounts that may have changed their name since, the admin's
\* credits and debits, and the store's date advancing
NextRegister ==
    \/ Tick
    \/ \E t \in Tasks, u \in Users, name \in Usernames : start(t, u, name)
    \/ \E t \in Tasks, s \in ADMIN_IDS, u \in Users, n \in 1..MaxAmount :
          add_tokens(t, s, u, n)
    \/ \E t \in Tasks : AddSelect(t)
    \/ \E t \in Tasks : AddUpdate(t)
    \/ \E t \in Tasks, s \in ADMIN_IDS, u \in Users, n \in 1..MaxAmount :
          remove_tokens_cmd(t, s, u, n)
    \/ \E t \in Tasks : RemoveSelect(t)
    \/ \E t \in Tasks : RemoveUpdate(t)
    \/ \E t \in Tasks : Finish(t)

SpecRegister == Init /\ [][NextRegister]_vars

\* ----------------------------------------------------------------- claims
Balance(u) == IF u \in DOMAIN users THEN users[u].generation_tokens ELSE 0

UsedToday(u) == IF <<u, today>> \in DOMAIN daily_usage THEN daily_usage[<<u, today>>] ELSE 0

\* the task t takes a step
Steps(t) == tasks'[t] # tasks[t]

InResolve(t) == tasks[t].pc \in {"cg_used", "cg_tokens"}

\* can_generate of task t returns in this step
Returns(t) == InResolve(t) /\ tasks'[t].pc \notin {"cg_used", "cg_tokens"}

\* the rule the decision is specified by
Reference(u) ==
    IF UsedToday(u) < FREE_DAILY_LIMIT THEN "free"
    ELSE IF u \in DOMAIN users /\ users[u].generation_tokens > 0 THEN "paid"
    ELSE "None"

\* C1: in every reachable state every user's paid balance is >= 0.
C1_BalanceNonNegative ==
    \A u \in DOMAIN users : users[u].generation_tokens >= 0

\* C2: for every user and day, used never exceeds FREE_DAILY_LIMIT, also when
\* requests of one user overlap.
C2_UsedWithinLimit ==
    \A k \in DOMAIN daily_usage : daily_usage[k] <= FREE_DAILY_LIMIT

\* C3: with concurrent commit_generation(user, "free") calls on one day and no
\* row at the start, used equals the number of calls that have completed, so
\* it is exactly N once all N have completed.
FreeCommitsDone(u) ==
    {t \in DOMAIN tasks : /\ tasks[t].op = "commit_generation"
                          /\ tasks[t].pc = "done"
                          /\ tasks[t].gen_type = "free"
                          /\ tasks[t].target = u}

C3_NoLostFreeCommit ==
    \A u \in Users : UsedToday(u) = Cardinality(FreeCommitsDone(u))

C3_Witness ==
    /\ FreeCommitsDone(1) = DOMAIN tasks
    /\ UsedToday(1) = MaxCalls

\* C4: the update of remove_tokens never takes a balance below 0, whatever
\* ran between its read and its update.
C4_DebitKeepsNonNegative ==
    [][\A t \in DOMAIN tasks :
         (tasks[t].op = "remove_tokens" /\ tasks[t].pc = "rt_update" /\ Steps(t))
            => users'[tasks[t].target].generation_tokens >= 0]_vars

\* C5: can_generate is a pure query: no step of it changes a used count or a
\* balance or creates a row.
C5_ResolveIsPure ==
    [][\A t \in DOMAIN tasks :
         (InResolve(t) /\ Steps(t)) => (users' = users /\ daily_usage' = daily_usage)]_vars

C5_Witness ==
    \E t1, t2 \in DOMAIN tasks :
        /\ t1 # t2
        /\ tasks[t1].pc = "run" /\ tasks[t2].pc = "run"
        /\ tasks[t1].target = tasks[t2].target
        /\ tasks[t1].gen_type = "free" /\ tasks[t2].gen_type = "paid"

\* C6: can_generate returns free when today's used count is below the limit,
\* otherwise paid when the balance is positive, otherwise None: it goes on to
\* the balance only when no free slot is left, and what it returns is the
\* reference decision for the ledger it reads.
C6_ResolveDecision ==
    [][\A t \in DOMAIN tasks :
         LET u == tasks[t].target IN
         /\ (tasks[t].pc = "cg_used" /\ tasks'[t].pc = "cg_tokens")
               => Reference(u) # "free"
         /\ (Returns(t) /\ (tasks[t].pc = "cg_tokens" => UsedToday(u) >= FREE_DAILY_LIMIT))
               => tasks'[t].gen_type = Reference(u)]_vars

C6_Witness ==
    \E t \in DOMAIN tasks :
        /\ tasks[t].op = "generate_image" /\ tasks[t].pc = "run"
        /\ tasks[t].gen_type = "paid"
        /\ UsedToday(tasks[t].target) = FREE_DAILY_LIMIT
        /\ Balance(tasks[t].target) = MaxTokens

\* C7: a request whose external generation or whose delivery fails never
\* calls commit and changes no used count and no balance.
GenerationFailed(r) ==
    r.op = "generate_image" /\ r.result \in {"gen_failed", "send_failed"}

C7_FailedGenerationNotCharged ==
    /\ [](\A t \in DOMAIN tasks : GenerationFailed(tasks[t]) => tasks[t].charged = 0)
    /\ [][\A t \in DOMAIN tasks :
            (Steps(t) /\ GenerationFailed(tasks'[t]))
               => (users' = users /\ daily_usage' = daily_usage)]_vars

C7_Witness ==
    \E t \in DOMAIN tasks :
        /\ tasks[t].op = "generate_image"
        /\ tasks[t].result = "send_failed"
        /\ tasks[t].gen_type = "paid"

\* C8: a request whose can_generate returned None never starts the external
\* generation, never calls commit and changes no counter.
C8_DeniedBlocksCommit ==
    /\ [](\A t \in DOMAIN tasks :
            /\ tasks[t].pc \in {"run", "commit"} => tasks[t].gen_type \in {"free", "paid"}
            /\ tasks[t].result = "no_tokens" => tasks[t].charged = 0)
    /\ [][\A t \in DOMAIN tasks :
            (Returns(t) /\ tasks'[t].gen_type = "None")
               => /\ tasks'[t].pc = "done"
                  /\ tasks'[t].result = "no_tokens"
                  /\ users' = users /\ daily_usage' = daily_usage]_vars

C8_Witness ==
    \E t \in DOMAIN tasks :
        /\ tasks[t].op = "generate_image"
        /\ tasks[t].pc = "done"
        /\ tasks[t].result = "no_tokens"
        /\ tasks[t].gen_type = "None"

\* C9: commit_generation called with a decision other than free or paid ends
\* in an InvalidDecision error and changes no counter.
C9_InvalidDecisionIsLoud ==
    \A t \in DOMAIN tasks :
        (/\ tasks[t].op = "commit_generation"
         /\ tasks[t].pc = "done"
         /\ tasks[t].gen_type \notin {"free", "paid"})
            => tasks[t].result = "InvalidDecision"

\* C10: add_tokens for an id without a users row reports that the user was
\* not found, creates no row, changes no balance and sends no notification.
C10_CreditUnknownUser ==
    [][\A t \in DOMAIN tasks :
         (tasks[t].pc = "at_select" /\ Steps(t) /\ tasks[t].target \notin DOMAIN users)
            => /\ tasks'[t].pc = "done"
               /\ tasks'[t].result = "not_found"
               /\ users' = users /\ daily_usage' = daily_usage]_vars

C10_Witness ==
    \E t \in DOMAIN tasks :
        /\ tasks[t].op = "add_tokens"
        /\ tasks[t].result = "not_found"
        /\ tasks[t].target \notin DOMAIN users

\* C11: remove_tokens with amount above the balance it reads reports the
\* failure and changes nothing; with amount <= that balance it goes on to its
\* update, which succeeds and lowers the balance by exactly amount.
C11_DebitOutcome ==
    [][\A t \in DOMAIN tasks :
         LET u == tasks[t].target
             n == tasks[t].amount
         IN  /\ (tasks[t].pc = "rt_select" /\ Steps(t) /\ u \in DOMAIN users)
                   => /\ users' = users /\ daily_usage' = daily_usage
                      /\ IF n > users[u].generation_tokens
                         THEN tasks'[t].pc = "done" /\ tasks'[t].result = "insufficient"
                         ELSE tasks'[t].pc = "rt_update"
             /\ (tasks[t].pc = "rt_update" /\ Steps(t))
                   => /\ u \in DOMAIN users
                      /\ users'[u].generation_tokens = users[u].generation_tokens - n
                      /\ tasks'[t].pc = "done" /\ tasks'[t].result = "ok"]_vars

C11_Witness ==
    \E t1, t2 \in DOMAIN tasks :
        /\ tasks[t1].op = "remove_tokens" /\ tasks[t1].result = "insufficient"
        /\ tasks[t2].op = "remove_tokens" /\ tasks[t2].result = "ok"
        /\ tasks[t1].target = tasks[t2].target
        /\ tasks[t1].target \in DOMAIN users
        /\ users[tasks[t1].target].generation_tokens = 1

\* C12: remove_tokens against an id without a users row is reported as user
\* not found, not as insufficient balance.
C12_DebitUnknownUser ==
    \A t \in DOMAIN tasks :
        (/\ tasks[t].op = "remove_tokens"
         /\ tasks[t].pc = "done"
         /\ tasks[t].result \notin {"no_rights", "bad_params"}
         /\ tasks[t].target \notin DOMAIN users)
            => tasks[t].result = "not_found"

\* C13: with requests handled strictly one after another, a user who starts
\* the day with balance k gets FREE_DAILY_LIMIT free decisions first, then k
\* paid ones that each lower the balance by 1, then only denials, with used
\* at the limit and the balance at 0.
C13_SerialSchedule ==
    /\ [](\A u \in Users :
            /\ UsedToday(u) <= FREE_DAILY_LIMIT
            /\ Balance(u) >= 0 /\ Balance(u) <= SerialBalance(u)
            /\ Balance(u) < SerialBalance(u) => UsedToday(u) = FREE_DAILY_LIMIT)
    /\ [](\A t \in DOMAIN tasks :
            LET u == tasks[t].target
                g == tasks[t].gen_type
            IN  /\ (tasks[t].pc \in {"run", "commit"} /\ g = "free")
                      => (UsedToday(u) < FREE_DAILY_LIMIT /\ Balance(u) = SerialBalance(u))
                /\ (tasks[t].pc \in {"run", "commit"} /\ g = "paid")
                      => (UsedToday(u) = FREE_DAILY_LIMIT /\ Balance(u) > 0)
                /\ tasks[t].result = "no_tokens"
                      => (UsedToday(u) = FREE_DAILY_LIMIT /\ Balance(u) = 0))
    /\ [][\A t \in DOMAIN tasks :
            LET u == tasks[t].target
            IN  (tasks[t].pc = "commit" /\ Steps(t))
                   => IF tasks[t].gen_type = "free"
                      THEN UsedToday(u)' = UsedToday(u) + 1 /\ Balance(u)' = Balance(u)
                      ELSE UsedToday(u)' = UsedToday(u) /\ Balance(u)' = Balance(u) - 1]_vars

C13_Witness ==
    \E t \in DOMAIN tasks :
        /\ tasks[t].result = "no_tokens"
        /\ SerialBalance(tasks[t].target) = MaxTokens
        /\ UsedToday(tasks[t].target) = FREE_DAILY_LIMIT
        /\ Balance(tasks[t].target) = 0

\* C14: add_tokens on an existing user raises that user's balance by exactly
\* amount, once, on top of whatever balance the store holds at that moment,
\* whatever commits, debits and credits ran since the handler's own read.
C14_CreditExact ==
    /\ [](\A t \in DOMAIN tasks :
            tasks[t].pc = "at_update" => tasks[t].target \in DOMAIN users)
    /\ [][\A t \in DOMAIN tasks :
            LET u == tasks[t].target
            IN  /\ (tasks[t].pc = "at_update" /\ Steps(t))
                      => /\ users'[u].generation_tokens
                               = users[u].generation_tokens + tasks[t].amount
                         /\ \A x \in DOMAIN users \ {u} : users'[x] = users[x]
                         /\ DOMAIN users' = DOMAIN users
                         /\ tasks'[t].pc = "done"
                         /\ tasks'[t].result \in {"ok_notified", "ok_not_notified"}
                /\ (tasks[t].op = "add_tokens" /\ tasks[t].pc # "at_update" /\ Steps(t))
                      => users' = users]_vars

C14_Witness ==
    \E t1, t2 \in DOMAIN tasks :
        /\ tasks[t1].op = "add_tokens" /\ tasks[t1].result = "ok_notified"
        /\ tasks[t2].op = "generate_image" /\ tasks[t2].result = "ok"
        /\ tasks[t2].gen_type = "paid"
        /\ tasks[t1].target = tasks[t2].target
        /\ Balance(tasks[t1].target) = MaxTokens

\* C15: get_free_left_today returns what is left of the daily limit for
\* today's used count (0 when there is no row), and 0, never a negative
\* number, when the count is at or above the limit.
C15_FreeLeft ==
    [][\A t \in DOMAIN tasks :
         LET used == UsedToday(tasks[t].target)
         IN  (tasks[t].pc = "fl_select" /\ Steps(t))
                => /\ tasks'[t].ret >= 0
                   /\ used <= FREE_DAILY_LIMIT => tasks'[t].ret + used = FREE_DAILY_LIMIT
                   /\ used >= FREE_DAILY_LIMIT => tasks'[t].ret = 0]_vars

C15_Witness ==
    \E t \in DOMAIN tasks :
        /\ tasks[t].op = "get_free_left_today" /\ tasks[t].pc = "done"
        /\ tasks[t].ret = 0
        /\ UsedToday(tasks[t].target) > FREE_DAILY_LIMIT
        /\ \A t2 \in DOMAIN tasks \ {t} :
              /\ tasks[t2].op = "commit_generation" /\ tasks[t2].pc = "done"
              /\ tasks[t2].target = tasks[t].target

\* C16: a credit or debit command whose sender is not in ADMIN_IDS ends at
\* the rights check and changes no balance, whatever id and amount it names.
AdminCommand(r) == r.op \in {"add_tokens", "remove_tokens"}

C16_NonAdminChangesNothing ==
    /\ [](\A t \in DOMAIN tasks :
            (AdminCommand(tasks[t]) /\ tasks[t].sender \notin ADMIN_IDS)
               => (tasks[t].pc = "done" /\ tasks[t].result = "no_rights"))
    /\ [][\A t \in DOMAIN tasks :
            (/\ Steps(t)
             /\ \/ AdminCommand(tasks[t]) /\ tasks[t].sender \notin ADMIN_IDS
                \/ AdminCommand(tasks'[t]) /\ tasks'[t].sender \notin ADMIN_IDS)
               => users' = users]_vars

C16_Witness ==
    \E t \in DOMAIN tasks :
        /\ tasks[t].op = "remove_tokens"
        /\ tasks[t].sender \notin ADMIN_IDS
        /\ tasks[t].result = "no_rights"
        /\ Balance(tasks[t].target) = MaxTokens

\* C17: the decision can_generate returns is the decision of the reference
\* rule on one ledger state that existed between the call's start and its
\* return, whatever commits, admin commands or date change ran in between.
C17_DecisionFromOneSnapshot ==
    [][\A t \in DOMAIN seen :
         Returns(t) => tasks'[t].gen_type \in seen[t]]_vars

\* C18: each commit changes one row of one table: a free commit leaves every
\* balance and every other (user, day) row as it was, a paid commit leaves
\* every usage row and every other user's balance as it was.
C18_CommitTouchesOneRow ==
    [][\A t \in DOMAIN tasks :
         LET u == tasks[t].target
             k == <<u, today>>
         IN  (tasks[t].pc = "commit" /\ Steps(t))
                => IF tasks[t].gen_type = "free"
                   THEN /\ users' = users
                        /\ DOMAIN daily_usage' = DOMAIN daily_usage \cup {k}
                        /\ \A j \in DOMAIN daily_usage \ {k} :
                              daily_usage'[j] = daily_usage[j]
                        /\ daily_usage'[k] = UsedToday(u) + 1
                   ELSE /\ daily_usage' = daily_usage
                        /\ DOMAIN users' = DOMAIN users
                        /\ \A x \in DOMAIN users \ {u} : users'[x] = users[x]
                        /\ u \in DOMAIN users
                        /\ users'[u].generation_tokens
                              = users[u].generation_tokens - 1]_vars

C18_Witness ==
    \E t \in DOMAIN tasks, x \in Users :
        /\ tasks[t].op = "generate_image" /\ tasks[t].charged = 1
        /\ tasks[t].gen_type = "paid"
        /\ x # tasks[t].target
        /\ Balance(x) = MaxTokens
        /\ UsedToday(x) = FREE_DAILY_LIMIT

\* C19: a request calls commit at most once, only after its own can_generate
\* returned free or paid and its own generation and delivery succeeded, and
\* with the class can_generate returned: what the commit records is that class.
C19_CommitOncePerSuccess ==
    /\ [](\A t \in DOMAIN tasks :
            tasks[t].op = "generate_image"
               => /\ tasks[t].charged <= 1
                  /\ tasks[t].charged = 1
                        => /\ tasks[t].pc = "done"
                           /\ tasks[t].result \in {"ok", "delete_failed"}
                           /\ tasks[t].gen_type \in {"free", "paid"})
    /\ [][\A t \in DOMAIN tasks :
            LET u == tasks[t].target
                g == tasks[t].gen_type
            IN  (tasks[t].op = "generate_image" /\ Steps(t))
                   => /\ tasks[t].pc \in {"run", "commit"} => tasks'[t].gen_type = g
                      /\ tasks'[t].pc = "run"
                            => (InResolve(t) /\ tasks'[t].gen_type \in {"free", "paid"})
                      /\ tasks'[t].pc = "commit" => tasks[t].pc = "run"
                      /\ tasks[t].pc # "commit"
                            => (users' = users /\ daily_usage' = daily_usage)
                      /\ tasks[t].pc = "commit"
                            => /\ tasks'[t].charged = 1
                               /\ g = "free" => /\ UsedToday(u)' = UsedToday(u) + 1
                                                /\ users' = users
                               /\ g = "paid" => /\ Balance(u)' = Balance(u) - 1
                                                /\ daily_usage' = daily_usage]_vars

C19_Witness ==
    \E t \in DOMAIN tasks :
        /\ tasks[t].op = "generate_image" /\ tasks[t].pc = "done"
        /\ tasks[t].result = "ok" /\ tasks[t].charged = 1
        /\ tasks[t].gen_type = "free"
        /\ Balance(tasks[t].target) = 1

\* C20: the free quota is per calendar day: a usage row is only created or
\* incremented for the store's current date, rows of other days are never
\* changed, and a user without a row for the current date gets free from
\* can_generate whatever their rows of earlier days hold.
C20_QuotaPerDay ==
    [][/\ \A k \in DOMAIN daily_usage :
            /\ k \in DOMAIN daily_usage'
            /\ k[2] # today => daily_usage'[k] = daily_usage[k]
            /\ daily_usage'[k] \in {daily_usage[k], daily_usage[k] + 1}
       /\ \A k \in DOMAIN daily_usage' \ DOMAIN daily_usage :
            k[2] = today /\ daily_usage'[k] = 1
       /\ \A t \in DOMAIN tasks :
            (/\ tasks[t].pc = "cg_used" /\ Steps(t)
             /\ <<tasks[t].target, today>> \notin DOMAIN daily_usage)
               => (tasks'[t].pc = "run" /\ tasks'[t].gen_type = "free")]_vars

C20_Witness ==
    /\ today = 1
    /\ <<1, 0>> \in DOMAIN daily_usage /\ <<1, 1>> \in DOMAIN daily_usage
    /\ daily_usage[<<1, 0>>] >= FREE_DAILY_LIMIT
    /\ daily_usage[<<1, 1>>] = 2

\* C21: a request holds no store connection while its external generation
\* call is in flight: the connection of can_generate is given back before
\* the call starts and the connection of commit_generation is taken only in
\* the step in which the call and the delivery have returned.
C21_NoConnectionAcrossGeneration ==
    /\ [](\A t \in DOMAIN tasks :
            /\ tasks[t].conn \in {0, 1}
            /\ tasks[t].pc \in {"run", "done", "idle"} => tasks[t].conn = 0)
    /\ [][\A t \in DOMAIN tasks :
            tasks'[t].op = "generate_image"
               => /\ tasks[t].pc = "run" => tasks[t].conn = 0
                  /\ tasks'[t].conn > tasks[t].conn
                        => \/ tasks[t].pc = "idle" /\ tasks'[t].pc = "cg_used"
                           \/ tasks[t].pc = "run" /\ tasks'[t].pc = "commit"
                  /\ (InResolve(t) /\ tasks'[t].pc = "run")
                        => tasks'[t].conn = 0]_vars

C21_Witness ==
    \E t \in DOMAIN tasks, o \in DOMAIN tasks :
        /\ tasks[t].op = "generate_image" /\ tasks[t].pc = "run"
        /\ tasks[t].gen_type = "paid" /\ tasks[t].conn = 0
        /\ tasks[o].op = "generate_image" /\ tasks[o].pc = "commit"
        /\ tasks[o].conn = 1

\* C22: registration is idempotent: /start from an id that already has a
\* users row changes nothing (balance, stored name and creation date are
\* kept), and after any number of /start the id has its row: one that a
\* first /start created with balance 0.
C22_RegisterIdempotent ==
    [][\A t \in DOMAIN tasks :
         (tasks'[t].op = "start" /\ Steps(t))
            => LET u == tasks'[t].target
               IN  /\ daily_usage' = daily_usage
                   /\ DOMAIN users' = DOMAIN users \cup {u}
                   /\ u \in DOMAIN users => users' = users
                   /\ u \notin DOMAIN users
                         => /\ users'[u] = UserRow(tasks'[t].username, today, 0)
                            /\ \A x \in DOMAIN users : users'[x] = users[x]]_vars

C22_Witness ==
    \E t \in DOMAIN tasks :
        /\ tasks[t].op = "start" /\ tasks[t].pc = "done"
        /\ LET u == tasks[t].target
           IN  /\ u \in DOMAIN users
               /\ users[u].username # tasks[t].username
               /\ users[u].generation_tokens = MaxTokens
               /\ users[u].created_at # today

\* C23: while the store is unavailable no counter changes; a can_generate
\* call that meets the outage yields no decision (not denied, not free, not
\* paid): the handler ends with the error and starts no generation; a commit
\* that meets it is not reported as success and charges nothing.
C23_OutageIsAnError ==
    [][/\ ~store_up => (users' = users /\ daily_usage' = daily_usage)
       /\ \A t \in DOMAIN tasks :
            (~store_up /\ Steps(t))
               => /\ InResolve(t)
                     => /\ tasks'[t].pc = "done"
                        /\ tasks'[t].result = "raised"
                        /\ tasks'[t].gen_type = tasks[t].gen_type
                        /\ tasks'[t].charged = 0
                  /\ tasks[t].pc = "commit"
                     => /\ tasks'[t].pc = "done"
                        /\ tasks'[t].result = "commit_error"
                        /\ tasks'[t].charged = 0]_vars

C23_Witness ==
    \E t \in DOMAIN tasks, o \in DOMAIN tasks :
        /\ ~store_up
        /\ tasks[t].pc = "done" /\ tasks[t].result = "raised"
        /\ tasks[o].pc = "done" /\ tasks[o].result = "commit_error"
        /\ tasks[o].gen_type = "paid"
        /\ Balance(tasks[o].target) = MaxTokens
        /\ UsedToday(tasks[o].target) = FREE_DAILY_LIMIT

\* C24: a plain text message of a user whose mode is support, or who has no
\* generation mode, is answered without a can_generate call, a generation or
\* a commit; a text message reaches can_generate only from a session whose
\* mode is txt2img or img2img.
C24_OnlyGenerationModesReachQuota ==
    /\ [](\A t \in DOMAIN tasks :
            tasks[t].op = "text_router"
               => /\ tasks[t].pc = "done"
                  /\ tasks[t].conn = 0 /\ tasks[t].charged = 0)
    /\ [][\A t \in DOMAIN tasks :
            (tasks[t].pc = "idle" /\ Steps(t))
               => LET m == user_states[tasks'[t].sender]
                  IN  IF m \in {"txt2img", "img2img"}
                      THEN /\ tasks'[t].pc = "cg_used"
                           /\ tasks'[t].op = "generate_image"
                      ELSE /\ tasks'[t].op = "text_router"
                           /\ tasks'[t].result
                                 = (IF m = SUPPORT_MODE THEN "support_forwarded"
                                                        ELSE "choose_mode")
                           /\ users' = users /\ daily_usage' = daily_usage]_vars

C24_Witness ==
    \E t \in DOMAIN tasks, o \in DOMAIN tasks :
        /\ tasks[t].op = "text_router" /\ tasks[t].result = "choose_mode"
        /\ user_states[tasks[t].sender] = "none"
        /\ tasks[o].op = "generate_image" /\ tasks[o].pc = "done"
        /\ tasks[o].result = "ok" /\ tasks[o].mode = "img2img"
        /\ tasks[o].sender = tasks[t].sender
====
